---- MODULE Spec2Model ----
(***************************************************************************)
(* ppmtrans: blocked 2D arrays (uarray2b.c), the plain method suite        *)
(* (a2plain.c) and the image transformation engine (ppmtrans.c).           *)
(*                                                                         *)
(* Grids live in a heap (a sequence of grid records, a handle is an index  *)
(* into it).  A traversal is modelled one callback invocation per step.    *)
(***************************************************************************)
EXTENDS Integers, Sequences, FiniteSets, TLC

VARIABLES heap,            \* sequence of grid records; a handle is an index
          ppm,             \* the caller's image record: width, height, pixels
          methods,         \* selected method suite (a table of slots)
          map,             \* selected traversal slot of the suite
          apply,           \* callback handed to the traversal
          transform_type,  \* ROTATE, FLIP or TRANSPOSE
          magnitude,       \* rotation angle or flip direction
          dest_info,       \* closure of the running transform
          pc,              \* position of the program
          it,              \* loop variables of the running traversal, or of
                           \* main's loop over the arguments
          visited,         \* callback invocations of the running traversal, each
                           \* with the destination coordinate it stored to; in
                           \* UArray2b_free, the objects touched and released
          prev,            \* contents of the image before the last transform
          applied,         \* number of completed transforms
          ret,             \* outcome of the driver's UArray2b_at or constructor
                           \* call; the caller's handle variable in UArray2b_free
          shadow,          \* last value stored at each coordinate through at
          writes,          \* number of stores made by the access driver
          args,            \* arguments of the constructor call, or of main
          orig             \* contents of the image as first read

vars == <<heap, ppm, methods, map, apply, transform_type, magnitude, dest_info,
          pc, it, visited, prev, applied, ret, shadow, writes, args, orig>>

(* ------------------------------ bounds -------------------------------- *)
MaxW == 3        \* largest grid width of the traversal and transform drivers
MaxH == 3        \* largest grid height of the traversal and transform drivers
AtMaxW == 3      \* largest grid width of the access driver
AtMaxH == 2      \* largest grid height of the access driver
MaxWrites == 2   \* stores made by the access driver
MaxApply == 4    \* transforms applied in succession to one image
MaxArgs == 3     \* command-line arguments after the program name

(* ------------------------- program constants --------------------------- *)
ROTATE == 0
FLIP == 1
TRANSPOSE == 2
HORIZ == 1
VERT == 2
CacheBytes == 64000
PnmRgbSize == 12

(* ------------------------- C integer arithmetic ------------------------ *)
\* C's / truncates toward zero; b > 0 in every use.
CDiv(a, b) == IF a >= 0 THEN a \div b ELSE -((-a) \div b)
\* C's % has the sign of the dividend.
CMod(a, b) == a - b * CDiv(a, b)
\* (int)ceil((double)a / (double)b) for a, b > 0
CeilDiv(a, b) == IF CMod(a, b) = 0 THEN CDiv(a, b) ELSE CDiv(a, b) + 1

(* ----------------- leaf arrays (UArray, UArray2) ------------------------ *)
\* UArray_new: a zero-filled buffer of `length` elements, indexed from 0.
UArray_new(length, size) == [i \in 0..(length - 1) |-> 0]

\* UArray_at: index-checked access.
UArray_inbounds(buf, i) == i >= 0 /\ i < Cardinality(DOMAIN buf)

\* UArray2_new: a zero-filled width x height plain array.
UArray2_new(width, height, size) ==
    [kind |-> "plain", width |-> width, height |-> height, size |-> size,
     elems |-> [p \in (0..(width - 1)) \X (0..(height - 1)) |-> 0]]

\* UArray2_at: index-checked access.
UArray2_inbounds(a, col, row) ==
    col >= 0 /\ col < a.width /\ row >= 0 /\ row < a.height

(* ----------------------- blocked arrays (uarray2b.c) -------------------- *)
\* cell_init: every block is a buffer of blocksize * blocksize elements.
cell_init(uarray2b) == UArray_new(uarray2b.blocksize * uarray2b.blocksize, uarray2b.size)

\* blocks_init: the grid of blocks.
blocks_init(uarray2b) ==
    LET blocks_h == CeilDiv(uarray2b.height, uarray2b.blocksize)
        blocks_w == CeilDiv(uarray2b.width, uarray2b.blocksize)
        blocks   == UArray2_new(blocks_w, blocks_h, 8)
    IN  [blocks EXCEPT !.elems = [p \in DOMAIN blocks.elems |-> cell_init(uarray2b)]]

\* The two assertions of UArray2b_init.
UArray2b_init_ok(width, height, size, blocksize) ==
    /\ width > 0 /\ height > 0 /\ size > 0 /\ blocksize > 0
    /\ blocksize <= width /\ blocksize <= height

\* UArray2b_init: the handle's fields, or an assertion failure.
UArray2b_init(width, height, size, blocksize) ==
    IF ~UArray2b_init_ok(width, height, size, blocksize)
    THEN [kind |-> "abort"]
    ELSE LET u == [kind |-> "blocked", width |-> width, height |-> height,
                   size |-> size, blocksize |-> blocksize]
         IN  [kind |-> "blocked", width |-> width, height |-> height,
              size |-> size, blocksize |-> blocksize, blocks |-> blocks_init(u)]

UArray2b_new(width, height, size, blocksize) ==
    UArray2b_init(width, height, size, blocksize)

\* (int)sqrt(n) for n >= 0: the largest r with r * r <= n, found by bisection.
RECURSIVE SqrtBetween(_, _, _)
SqrtBetween(n, lo, hi) ==
    IF lo >= hi THEN lo
    ELSE LET mid == (lo + hi + 1) \div 2
         IN  IF mid * mid <= n THEN SqrtBetween(n, mid, hi)
             ELSE SqrtBetween(n, lo, mid - 1)
ISqrt(n) == SqrtBetween(n, 0, n)

\* sqrt(n) > d for n >= 1 and an int d (sqrt(n) is positive).
SqrtExceeds(n, d) == d < 0 \/ n > d * d

\* Blocksize64K without the comparison of sqrt(num_cells) to the dimensions.
Blocksize64K_nodims(width, height, num_cells) ==
    IF num_cells < 1 THEN 1 ELSE ISqrt(num_cells)

\* Blocksize64K choosing the larger dimension in the second case.
Blocksize64K_max(width, height, num_cells) ==
    IF num_cells < 1 THEN 1
    ELSE IF SqrtExceeds(num_cells, width) \/ SqrtExceeds(num_cells, height)
    THEN (IF height < width THEN width ELSE height)
    ELSE ISqrt(num_cells)

\* UArray2b_new_64K_block, lines 69-82: the blocksize for num_cells cells.
Blocksize64K(width, height, num_cells) ==
    IF num_cells < 1 THEN 1
    ELSE IF SqrtExceeds(num_cells, width) \/ SqrtExceeds(num_cells, height)
    THEN (IF height < width THEN height ELSE width)
    ELSE ISqrt(num_cells)

\* UArray2b_new_64K_block for size # 0 (64000 / 0 is undefined).
UArray2b_new_64K_block(width, height, size) ==
    UArray2b_init(width, height, size,
                  Blocksize64K(width, height, CDiv(CacheBytes, size)))

\* UArray2b_at with the row offset not scaled by the blocksize.
UArray2b_at_nomul(uarray2b, col, row) ==
    IF ~(col < uarray2b.width /\ row < uarray2b.height)
    THEN [ok |-> FALSE]
    ELSE LET blocks    == uarray2b.blocks
             bs        == uarray2b.blocksize
             bc        == CDiv(col, bs)
             br        == CDiv(row, bs)
             off       == CMod(row, bs) + CMod(col, bs)
         IN  IF ~UArray2_inbounds(blocks, bc, br) THEN [ok |-> FALSE]
             ELSE IF ~UArray_inbounds(blocks.elems[<<bc, br>>], off) THEN [ok |-> FALSE]
             ELSE [ok |-> TRUE, block |-> <<bc, br>>, off |-> off]

\* UArray2b_at taking both parts of the offset from the row.
UArray2b_at_rowrow(uarray2b, col, row) ==
    IF ~(col < uarray2b.width /\ row < uarray2b.height)
    THEN [ok |-> FALSE]
    ELSE LET blocks    == uarray2b.blocks
             bs        == uarray2b.blocksize
             bc        == CDiv(col, bs)
             br        == CDiv(row, bs)
             off       == (bs * CMod(row, bs)) + CMod(row, bs)
         IN  IF ~UArray2_inbounds(blocks, bc, br) THEN [ok |-> FALSE]
             ELSE IF ~UArray_inbounds(blocks.elems[<<bc, br>>], off) THEN [ok |-> FALSE]
             ELSE [ok |-> TRUE, block |-> <<bc, br>>, off |-> off]

\* UArray2b_at: the storage slot of (col, row), or an assertion failure.
UArray2b_at(uarray2b, col, row) ==
    IF ~(col < uarray2b.width /\ row < uarray2b.height)
    THEN [ok |-> FALSE]
    ELSE LET blocks    == uarray2b.blocks
             blocksize == uarray2b.blocksize
             bc        == CDiv(col, blocksize)
             br        == CDiv(row, blocksize)
             off       == (blocksize * CMod(row, blocksize)) + CMod(col, blocksize)
         IN  IF ~UArray2_inbounds(blocks, bc, br) THEN [ok |-> FALSE]
             ELSE IF ~UArray_inbounds(blocks.elems[<<bc, br>>], off) THEN [ok |-> FALSE]
             ELSE [ok |-> TRUE, block |-> <<bc, br>>, off |-> off]

\* Load and store through a slot returned by UArray2b_at.
Load2b(uarray2b, ref) == uarray2b.blocks.elems[ref.block][ref.off]
Store2b(uarray2b, ref, v) ==
    [uarray2b EXCEPT !.blocks.elems[ref.block][ref.off] = v]

\* BlkH without the clipping of the last block row.
BlkH_noclip(uarray2b, blk_row) == uarray2b.blocksize

\* BlkW testing and using the height's remainder instead of the width's.
BlkW_swapped(uarray2b, blk_col) ==
    LET uarray2_w == uarray2b.blocks.width
    IN  IF blk_col = uarray2_w - 1 /\ CMod(uarray2b.height, uarray2b.blocksize) # 0
        THEN CMod(uarray2b.height, uarray2b.blocksize)
        ELSE uarray2b.blocksize

\* UArray2b_map, lines 267-271 and 274-279: the clipped extent of a block.
BlkH(uarray2b, blk_row) ==
    LET uarray2_h == uarray2b.blocks.height
    IN  IF blk_row = uarray2_h - 1 /\ CMod(uarray2b.height, uarray2b.blocksize) # 0
        THEN CMod(uarray2b.height, uarray2b.blocksize)
        ELSE uarray2b.blocksize

BlkW(uarray2b, blk_col) ==
    LET uarray2_w == uarray2b.blocks.width
    IN  IF blk_col = uarray2_w - 1 /\ CMod(uarray2b.width, uarray2b.blocksize) # 0
        THEN CMod(uarray2b.width, uarray2b.blocksize)
        ELSE uarray2b.blocksize

\* CellCol walking the columns of a block from right to left.
CellCol_reversed(uarray2b, blk_col, x) ==
    blk_col * uarray2b.blocksize + (BlkW(uarray2b, blk_col) - 1 - x)

\* CellRow without the scaling of the block row by the blocksize.
CellRow_unscaled(uarray2b, blk_row, y) == blk_row + y

\* UArray2b_map, lines 283-284: the cell at (x, y) of block (blk_col, blk_row).
CellCol(uarray2b, blk_col, x) == blk_col * uarray2b.blocksize + x
CellRow(uarray2b, blk_row, y) == blk_row * uarray2b.blocksize + y

\* The four nested for loops of UArray2b_map: the loop variables at the next
\* execution of the innermost body, starting the search at (blk_row, blk_col, y, x).
\* blk_row = uarray2_h means that the outer loop has ended.
RECURSIVE BlockLoop(_, _, _, _, _)
BlockLoop(uarray2b, blk_row, blk_col, y, x) ==
    IF ~(blk_row < uarray2b.blocks.height)
    THEN [blk_row |-> uarray2b.blocks.height, blk_col |-> 0, y |-> 0, x |-> 0]
    ELSE IF ~(blk_col < uarray2b.blocks.width)
    THEN BlockLoop(uarray2b, blk_row + 1, 0, 0, 0)
    ELSE IF ~(y < BlkH(uarray2b, blk_row))
    THEN BlockLoop(uarray2b, blk_row, blk_col + 1, 0, 0)
    ELSE IF ~(x < BlkW(uarray2b, blk_col))
    THEN BlockLoop(uarray2b, blk_row, blk_col, y + 1, 0)
    ELSE [blk_row |-> blk_row, blk_col |-> blk_col, y |-> y, x |-> x]

\* The two nested for loops of UArray2_map_row_major and UArray2_map_col_major,
\* in the same form; row = height (col = width) means that the outer loop ended.
RECURSIVE RowLoop(_, _, _)
RowLoop(a, row, col) ==
    IF ~(row < a.height) THEN [row |-> a.height, col |-> 0]
    ELSE IF ~(col < a.width) THEN RowLoop(a, row + 1, 0)
    ELSE [row |-> row, col |-> col]

RECURSIVE ColLoop(_, _, _)
ColLoop(a, col, row) ==
    IF ~(col < a.width) THEN [row |-> 0, col |-> a.width]
    ELSE IF ~(row < a.height) THEN ColLoop(a, col + 1, 0)
    ELSE [row |-> row, col |-> col]

(* ------------------------- method suites -------------------------------- *)
\* a2plain.c: the plain suite has no block-major traversal.
uarray2_methods_plain ==
    [name |-> "plain",
     map_row_major |-> "map_row_major", map_col_major |-> "map_col_major",
     map_block_major |-> "NULL", map_default |-> "map_row_major",
     small_map_row_major |-> "small_map_row_major",
     small_map_col_major |-> "small_map_col_major",
     small_map_block_major |-> "NULL",
     small_map_default |-> "small_map_row_major"]

\* The blocked suite: block-major traversal only.
uarray2_methods_blocked ==
    [name |-> "blocked",
     map_row_major |-> "NULL", map_col_major |-> "NULL",
     map_block_major |-> "map_block_major", map_default |-> "map_block_major",
     small_map_row_major |-> "NULL",
     small_map_col_major |-> "NULL",
     small_map_block_major |-> "small_map_block_major",
     small_map_default |-> "small_map_block_major"]

\* No suite selected (drivers that call uarray2b.c directly).
NoMethods == [name |-> "none"]

\* width, height and blocksize of a2plain.c
plain_width(array2) == array2.width
plain_height(array2) == array2.height
plain_blocksize(array2) == 1

\* at of a2plain.c: UArray2_at.
plain_at(array2, i, j) ==
    IF UArray2_inbounds(array2, i, j) THEN [ok |-> TRUE, cell |-> <<i, j>>]
    ELSE [ok |-> FALSE]

\* methods->at through the selected suite.
Methods_at(m, array2, i, j) ==
    IF m.name = "plain" THEN plain_at(array2, i, j) ELSE UArray2b_at(array2, i, j)

\* Load and store through an element reference of either kind of grid.
Load(g, ref) == IF g.kind = "plain" THEN g.elems[ref.cell] ELSE Load2b(g, ref)
Store(g, ref, v) ==
    IF g.kind = "plain" THEN [g EXCEPT !.elems[ref.cell] = v] ELSE Store2b(g, ref, v)

\* The logical contents of a live grid, each cell read through methods->at.
Coords(w, h) == (0..(w - 1)) \X (0..(h - 1))
View(m, g) ==
    [width |-> g.width, height |-> g.height,
     cells |-> [p \in Coords(g.width, g.height) |-> Load(g, Methods_at(m, g, p[1], p[2]))],
     pixels |-> 0]

(* ------------------------- method suite slots --------------------------- *)
\* methods->width and methods->height (UArray2_width / UArray2b_width, ...).
Methods_width(m, array2) == IF m.name = "plain" THEN plain_width(array2) ELSE array2.width
Methods_height(m, array2) == IF m.name = "plain" THEN plain_height(array2) ELSE array2.height

\* new of a2plain.c.
plain_new(width, height, size) == UArray2_new(width, height, size)

\* methods->new: the blocked suite builds its grids with the 64K heuristic.
Methods_new(m, width, height, size) ==
    IF m.name = "plain" THEN plain_new(width, height, size)
    ELSE UArray2b_new_64K_block(width, height, size)

(* ------------------------- callbacks ------------------------------------ *)
\* The outcome of a callback: the heap after it and the destination
\* coordinate it stored to (none for a callback that stores nothing), or an
\* abort.
Aborted == [ok |-> FALSE, heap |-> <<>>, dest |-> <<>>]

\* A callback that only looks at the element (the traversal drivers' callback).
visit(h, col, row, source, ptr, cl) == [ok |-> TRUE, heap |-> h, dest |-> <<>>]

\* dest_pixel = methods->at(destination, dcol, drow); *dest_pixel = *source_pixel
CopyPixel(h, cl, dcol, drow, source, ptr) ==
    LET destination == h[cl.destination_map]
        dest_pixel  == Methods_at(cl.methods, destination, dcol, drow)
    IN  IF ~dest_pixel.ok THEN Aborted
        ELSE [ok |-> TRUE,
              heap |-> [h EXCEPT ![cl.destination_map] =
                            Store(destination, dest_pixel, Load(h[source], ptr))],
              dest |-> <<dcol, drow>>]

\* rotate_map with width and height confused in the 90 degree case.
rotate_map_wh(h, col, row, source, ptr, cl) ==
    LET rotation == cl.magnitude
        height   == Methods_height(cl.methods, h[source])
        width    == Methods_width(cl.methods, h[source])
    IN  IF rotation = 0 THEN CopyPixel(h, cl, col, row, source, ptr)
        ELSE IF rotation = 90 THEN CopyPixel(h, cl, width - row - 1, col, source, ptr)
        ELSE IF rotation = 180
        THEN CopyPixel(h, cl, width - col - 1, height - row - 1, source, ptr)
        ELSE IF rotation = 270 THEN CopyPixel(h, cl, row, width - col - 1, source, ptr)
        ELSE Aborted

\* rotate_map turning counterclockwise: the 90 and 270 cases exchanged.
rotate_map_ccw(h, col, row, source, ptr, cl) ==
    LET rotation == cl.magnitude
        height   == Methods_height(cl.methods, h[source])
        width    == Methods_width(cl.methods, h[source])
    IN  IF rotation = 0 THEN CopyPixel(h, cl, col, row, source, ptr)
        ELSE IF rotation = 90 THEN CopyPixel(h, cl, row, width - col - 1, source, ptr)
        ELSE IF rotation = 180
        THEN CopyPixel(h, cl, width - col - 1, height - row - 1, source, ptr)
        ELSE IF rotation = 270 THEN CopyPixel(h, cl, height - row - 1, col, source, ptr)
        ELSE Aborted

\* rotate_map.  main admits the rotations 0, 90, 180 and 270 only, so the
\* last branch (dest_pixel left unset) is never taken.
rotate_map(h, col, row, source, ptr, cl) ==
    LET rotation == cl.magnitude
        height   == Methods_height(cl.methods, h[source])
        width    == Methods_width(cl.methods, h[source])
    IN  IF rotation = 0 THEN CopyPixel(h, cl, col, row, source, ptr)
        ELSE IF rotation = 90 THEN CopyPixel(h, cl, height - row - 1, col, source, ptr)
        ELSE IF rotation = 180
        THEN CopyPixel(h, cl, width - col - 1, height - row - 1, source, ptr)
        ELSE IF rotation = 270 THEN CopyPixel(h, cl, row, width - col - 1, source, ptr)
        ELSE Aborted

\* flip_map sending every row to the last one in the vertical case.
flip_map_norow(h, col, row, source, ptr, cl) ==
    LET flip_type == cl.magnitude
        height    == Methods_height(cl.methods, h[source])
        width     == Methods_width(cl.methods, h[source])
    IN  IF flip_type = HORIZ THEN CopyPixel(h, cl, width - col - 1, row, source, ptr)
        ELSE IF flip_type = VERT THEN CopyPixel(h, cl, col, height - 1, source, ptr)
        ELSE Aborted

\* flip_map.  main admits HORIZ and VERT only.
flip_map(h, col, row, source, ptr, cl) ==
    LET flip_type == cl.magnitude
        height    == Methods_height(cl.methods, h[source])
        width     == Methods_width(cl.methods, h[source])
    IN  IF flip_type = HORIZ THEN CopyPixel(h, cl, width - col - 1, row, source, ptr)
        ELSE IF flip_type = VERT THEN CopyPixel(h, cl, col, height - row - 1, source, ptr)
        ELSE Aborted

\* transpose_map using the coordinates of the 90 degree rotation.
transpose_map_rot90(h, col, row, source, ptr, cl) ==
    CopyPixel(h, cl, Methods_height(cl.methods, h[source]) - row - 1, col, source, ptr)

\* transpose_map
transpose_map(h, col, row, source, ptr, cl) ==
    CopyPixel(h, cl, row, col, source, ptr)

\* apply(col, row, source, ptr, cl) for the callback named f, on heap h.
Call(h, f, col, row, source, ptr, cl) ==
    IF f = "rotate_map" THEN rotate_map(h, col, row, source, ptr, cl)
    ELSE IF f = "flip_map" THEN flip_map(h, col, row, source, ptr, cl)
    ELSE IF f = "transpose_map" THEN transpose_map(h, col, row, source, ptr, cl)
    ELSE visit(h, col, row, source, ptr, cl)

(* ------------------------- traversal steps ------------------------------ *)
NoIt == [a |-> 0, blk_row |-> 0, blk_col |-> 0, y |-> 0, x |-> 0, row |-> 0, col |-> 0]

\* One callback invocation: record it, run the callback, move the loop variables.
Invoke(cell_col, cell_row, elem, next) ==
    IF ~elem.ok
    THEN /\ pc' = "abort"
         /\ UNCHANGED <<heap, it, visited>>
    ELSE LET r == Call(heap, apply, cell_col, cell_row, it.a, elem, dest_info)
         IN  IF ~r.ok
             THEN /\ pc' = "abort"
                  /\ UNCHANGED <<heap, it, visited>>
             ELSE /\ heap' = r.heap
                  /\ it' = next
                  /\ visited' = Append(visited,
                        [col |-> cell_col, row |-> cell_row, elem |-> elem,
                         val |-> Load(heap[it.a], elem), dest |-> r.dest])
                  /\ pc' = pc

\* UArray2b_map: one execution of the innermost loop body.
UArray2b_map ==
    /\ pc = "map"
    /\ map = "map_block_major"
    /\ LET uarray2b  == heap[it.a]
           cell_col  == CellCol(uarray2b, it.blk_col, it.x)
           cell_row  == CellRow(uarray2b, it.blk_row, it.y)
           n         == BlockLoop(uarray2b, it.blk_row, it.blk_col, it.y, it.x + 1)
       IN  /\ it.blk_row < uarray2b.blocks.height
           /\ Invoke(cell_col, cell_row, UArray2b_at(uarray2b, cell_col, cell_row),
                     [it EXCEPT !.blk_row = n.blk_row, !.blk_col = n.blk_col,
                                !.y = n.y, !.x = n.x])
    /\ UNCHANGED <<ppm, methods, map, apply, transform_type, magnitude, dest_info,
                   prev, applied, ret, shadow, writes, args, orig>>

\* The loop variables on entry to the selected traversal of grid `a`.
MapEntry(a) ==
    LET g == heap[a]
    IN  IF map = "map_block_major"
        THEN LET n == BlockLoop(g, 0, 0, 0, 0)
             IN  [NoIt EXCEPT !.a = a, !.blk_row = n.blk_row, !.blk_col = n.blk_col,
                              !.y = n.y, !.x = n.x]
        ELSE IF map = "map_row_major"
        THEN LET n == RowLoop(g, 0, 0) IN [NoIt EXCEPT !.a = a, !.row = n.row, !.col = n.col]
        ELSE LET n == ColLoop(g, 0, 0) IN [NoIt EXCEPT !.a = a, !.row = n.row, !.col = n.col]

\* The selected traversal has run all its loops.
MapEnded ==
    LET g == heap[it.a]
    IN  IF map = "map_block_major" THEN ~(it.blk_row < g.blocks.height)
        ELSE IF map = "map_row_major" THEN ~(it.row < g.height)
        ELSE ~(it.col < g.width)

\* map_row_major of a2plain.c (UArray2_map_row_major): one execution of the
\* loop body.
map_row_major ==
    /\ pc = "map"
    /\ map = "map_row_major"
    /\ LET array2 == heap[it.a]
           n      == RowLoop(array2, it.row, it.col + 1)
       IN  /\ it.row < array2.height
           /\ Invoke(it.col, it.row, plain_at(array2, it.col, it.row),
                     [it EXCEPT !.row = n.row, !.col = n.col])
    /\ UNCHANGED <<ppm, methods, map, apply, transform_type, magnitude, dest_info,
                   prev, applied, ret, shadow, writes, args, orig>>

\* map_col_major of a2plain.c (UArray2_map_col_major): one execution of the
\* loop body.
map_col_major ==
    /\ pc = "map"
    /\ map = "map_col_major"
    /\ LET array2 == heap[it.a]
           n      == ColLoop(array2, it.col, it.row + 1)
       IN  /\ it.col < array2.width
           /\ Invoke(it.col, it.row, plain_at(array2, it.col, it.row),
                     [it EXCEPT !.row = n.row, !.col = n.col])
    /\ UNCHANGED <<ppm, methods, map, apply, transform_type, magnitude, dest_info,
                   prev, applied, ret, shadow, writes, args, orig>>

(* ------------------- whole traversals as functions ---------------------- *)
\* A complete call map(a, f, cl) on heap h, from the loop variables n on:
\* the heap when the traversal returns, or an abort.
RECURSIVE RunBlock(_, _, _, _, _)
RunBlock(h, a, n, f, cl) ==
    IF ~(n.blk_row < h[a].blocks.height) THEN [ok |-> TRUE, heap |-> h]
    ELSE LET cell_col == CellCol(h[a], n.blk_col, n.x)
             cell_row == CellRow(h[a], n.blk_row, n.y)
             elem     == UArray2b_at(h[a], cell_col, cell_row)
         IN  IF ~elem.ok THEN Aborted
             ELSE LET r == Call(h, f, cell_col, cell_row, a, elem, cl)
                  IN  IF ~r.ok THEN Aborted
                      ELSE RunBlock(r.heap, a,
                               BlockLoop(h[a], n.blk_row, n.blk_col, n.y, n.x + 1), f, cl)

RECURSIVE RunRow(_, _, _, _, _)
RunRow(h, a, n, f, cl) ==
    IF ~(n.row < h[a].height) THEN [ok |-> TRUE, heap |-> h]
    ELSE LET elem == plain_at(h[a], n.col, n.row)
         IN  IF ~elem.ok THEN Aborted
             ELSE LET r == Call(h, f, n.col, n.row, a, elem, cl)
                  IN  IF ~r.ok THEN Aborted
                      ELSE RunRow(r.heap, a, RowLoop(h[a], n.row, n.col + 1), f, cl)

RECURSIVE RunCol(_, _, _, _, _)
RunCol(h, a, n, f, cl) ==
    IF ~(n.col < h[a].width) THEN [ok |-> TRUE, heap |-> h]
    ELSE LET elem == plain_at(h[a], n.col, n.row)
         IN  IF ~elem.ok THEN Aborted
             ELSE LET r == Call(h, f, n.col, n.row, a, elem, cl)
                  IN  IF ~r.ok THEN Aborted
                      ELSE RunCol(r.heap, a, ColLoop(h[a], n.col, n.row + 1), f, cl)

\* map(a, f, cl) for the traversal slot named mapfn.
RunMap(h, mapfn, a, f, cl) ==
    IF mapfn = "map_block_major"
    THEN RunBlock(h, a, BlockLoop(h[a], 0, 0, 0, 0), f, cl)
    ELSE IF mapfn = "map_row_major" THEN RunRow(h, a, RowLoop(h[a], 0, 0), f, cl)
    ELSE RunCol(h, a, ColLoop(h[a], 0, 0), f, cl)

(* ---------------- driver: one block-major traversal --------------------- *)
\* Grid shapes of the traversal driver: every valid (width, height, blocksize)
\* within the bounds, and the 10 x 10 grid of blocksize 4.
MapShapes ==
    {s \in (1..MaxW) \X (1..MaxH) \X (1..MaxW) : s[3] <= s[1] /\ s[3] <= s[2]}
        \cup {<<10, 10, 4>>}

NoPpm == [width |-> 0, height |-> 0, pixels |-> 0]
NoInfo == [methods |-> NoMethods, destination_map |-> 0, magnitude |-> 0]
NoPrev == [width |-> 0, height |-> 0, cells |-> <<>>, pixels |-> 0]
NoRet == [called |-> FALSE, col |-> 0, row |-> 0, ref |-> [ok |-> FALSE]]
NoArgs == [fn |-> "none", width |-> 0, height |-> 0, size |-> 0, blocksize |-> 0]

InitMap ==
    /\ \E s \in MapShapes : heap = <<UArray2b_new(s[1], s[2], 1, s[3])>>
    /\ ppm = NoPpm
    /\ methods = NoMethods
    /\ map = "map_block_major"
    /\ apply = "visit"
    /\ transform_type = ROTATE
    /\ magnitude = 0
    /\ dest_info = NoInfo
    /\ pc = "call"
    /\ it = NoIt
    /\ visited = <<>>
    /\ prev = NoPrev
    /\ applied = 0
    /\ ret = NoRet
    /\ shadow = <<>>
    /\ writes = 0
    /\ args = NoArgs
    /\ orig = NoPrev

\* The driver calls UArray2b_map(grid, visit, NULL).
MapCall ==
    /\ pc = "call"
    /\ it' = MapEntry(1)
    /\ visited' = <<>>
    /\ pc' = "map"
    /\ UNCHANGED <<heap, ppm, methods, map, apply, transform_type, magnitude,
                   dest_info, prev, applied, ret, shadow, writes, args, orig>>

\* UArray2b_map returns to the driver.
MapReturn ==
    /\ pc = "map"
    /\ MapEnded
    /\ pc' = "returned"
    /\ UNCHANGED <<heap, ppm, methods, map, apply, transform_type, magnitude,
                   dest_info, it, visited, prev, applied, ret, shadow, writes, args, orig>>

NextMap == MapCall \/ UArray2b_map \/ MapReturn

SpecMap == InitMap /\ [][NextMap]_vars

(* ---------------- driver: element access through UArray2b_at ------------ *)
\* The driver builds one blocked grid, may first call UArray2b_at once with
\* any coordinates (in range or not) and drop the result, then stores values
\* through UArray2b_at at coordinates inside the grid, and last traverses the
\* grid with UArray2b_map.
AtShapes ==
    {s \in (1..AtMaxW) \X (1..AtMaxH) \X (1..AtMaxW) : s[3] <= s[1] /\ s[3] <= s[2]}

\* Element values: the code copies them and never looks at them.
PixelValues == {1, 2}

InitAt ==
    /\ \E s \in AtShapes :
          /\ heap = <<UArray2b_new(s[1], s[2], 1, s[3])>>
          /\ shadow = [p \in Coords(s[1], s[2]) |-> 0]
    /\ ppm = NoPpm
    /\ methods = NoMethods
    /\ map = "map_block_major"
    /\ apply = "visit"
    /\ transform_type = ROTATE
    /\ magnitude = 0
    /\ dest_info = NoInfo
    /\ pc = "start"
    /\ it = NoIt
    /\ visited = <<>>
    /\ prev = NoPrev
    /\ applied = 0
    /\ ret = NoRet
    /\ writes = 0
    /\ args = NoArgs
    /\ orig = NoPrev

\* A call UArray2b_at(grid, col, row): it returns a reference, or an
\* assertion fails and the program ends.
AtCall ==
    /\ pc = "start"
    /\ \E col \in (-AtMaxW)..AtMaxW, row \in (-AtMaxH)..AtMaxH :
          LET r == UArray2b_at(heap[1], col, row)
          IN  /\ ret' = [called |-> TRUE, col |-> col, row |-> row, ref |-> r]
              /\ pc' = IF r.ok THEN "holding" ELSE "abort"
    /\ UNCHANGED <<heap, ppm, methods, map, apply, transform_type, magnitude,
                   dest_info, it, visited, prev, applied, shadow, writes, args, orig>>

\* The driver drops the reference it holds.
AtRelease ==
    /\ pc = "holding"
    /\ ret' = NoRet
    /\ pc' = "stores"
    /\ UNCHANGED <<heap, ppm, methods, map, apply, transform_type, magnitude,
                   dest_info, it, visited, prev, applied, shadow, writes, args, orig>>

\* *(UArray2b_at(grid, col, row)) = v for a coordinate inside the grid.
AtStore ==
    /\ pc \in {"start", "stores"}
    /\ writes < MaxWrites
    /\ \E p \in Coords(heap[1].width, heap[1].height), v \in PixelValues :
          LET r == UArray2b_at(heap[1], p[1], p[2])
          IN  IF ~r.ok
              THEN /\ pc' = "abort"
                   /\ UNCHANGED <<heap, shadow, writes>>
              ELSE /\ heap' = [heap EXCEPT ![1] = Store2b(heap[1], r, v)]
                   /\ shadow' = [shadow EXCEPT ![p] = v]
                   /\ writes' = writes + 1
                   /\ pc' = "stores"
    /\ UNCHANGED <<ppm, methods, map, apply, transform_type, magnitude,
                   dest_info, it, visited, prev, applied, ret, args, orig>>

\* The driver calls UArray2b_map(grid, visit, NULL).
AtMapCall ==
    /\ pc \in {"start", "stores"}
    /\ it' = MapEntry(1)
    /\ visited' = <<>>
    /\ pc' = "map"
    /\ UNCHANGED <<heap, ppm, methods, map, apply, transform_type, magnitude,
                   dest_info, prev, applied, ret, shadow, writes, args, orig>>

NextAt == AtCall \/ AtRelease \/ AtStore \/ AtMapCall \/ UArray2b_map \/ MapReturn

SpecAt == InitAt /\ [][NextAt]_vars


(* ---------------- driver: the two constructors -------------------------- *)
\* The driver makes one constructor call.  The outcome is recorded in ret:
\* the blocksize handed to UArray2b_init, and whether a handle came back
\* ("handle"), an assertion failed ("abort") or the division by a zero size
\* trapped ("trap").  The block buffers of the new grid are not built here:
\* only the handle's fields, the block grid's dimensions and the number of
\* block buffers allocated (one UArray_new per cell_init call) are kept.
NewDims == ((-1)..5) \cup {72, 73, 74, 252, 253, 1000}
NewSizes == {-1, 0, 1, 12, 6400, 7111, 16000, 64000, 64001}
SmallDims == (-1)..MaxW
SmallSizes == {-1, 0, 1}

\* Values an int may hold after the undefined division 64000 / 0.
UndefinedCells == {-1, 0, 1, 64000}

NoNew == [called |-> FALSE, outcome |-> "none", blocksize |-> 0,
          blocks_w |-> 0, blocks_h |-> 0, buffers |-> 0]

InitNew ==
    /\ \/ \E w \in NewDims, h \in NewDims, sz \in NewSizes :
             args = [fn |-> "UArray2b_new_64K_block", width |-> w, height |-> h,
                     size |-> sz, blocksize |-> 0]
       \/ \E w \in SmallDims, h \in SmallDims, sz \in SmallSizes, bs \in SmallDims :
             args = [fn |-> "UArray2b_new", width |-> w, height |-> h,
                     size |-> sz, blocksize |-> bs]
    /\ heap = <<>>
    /\ ppm = NoPpm
    /\ methods = NoMethods
    /\ map = "map_block_major"
    /\ apply = "visit"
    /\ transform_type = ROTATE
    /\ magnitude = 0
    /\ dest_info = NoInfo
    /\ pc = "call"
    /\ it = NoIt
    /\ visited = <<>>
    /\ prev = NoPrev
    /\ applied = 0
    /\ ret = NoNew
    /\ shadow = <<>>
    /\ writes = 0
    /\ orig = NoPrev

\* NEW(uarray2b); UArray2b_init(uarray2b, width, height, size, blocksize):
\* the outcome of the constructor once the blocksize is known.
Constructed(width, height, size, bs) ==
    IF UArray2b_init_ok(width, height, size, bs)
    THEN [called |-> TRUE, outcome |-> "handle", blocksize |-> bs,
          blocks_w |-> CeilDiv(width, bs), blocks_h |-> CeilDiv(height, bs),
          buffers |-> CeilDiv(width, bs) * CeilDiv(height, bs)]
    ELSE [called |-> TRUE, outcome |-> "abort", blocksize |-> bs,
          blocks_w |-> 0, blocks_h |-> 0, buffers |-> 0]

\* A call of UArray2b_new_64K_block(width, height, size).
New64K ==
    /\ pc = "call"
    /\ args.fn = "UArray2b_new_64K_block"
    /\ \/ /\ args.size # 0
          /\ ret' = Constructed(args.width, args.height, args.size,
                       Blocksize64K(args.width, args.height, CDiv(CacheBytes, args.size)))
       \/ /\ args.size = 0
          /\ \/ ret' = [NoNew EXCEPT !.called = TRUE, !.outcome = "trap"]
             \/ \E num_cells \in UndefinedCells :
                   ret' = Constructed(args.width, args.height, args.size,
                             Blocksize64K(args.width, args.height, num_cells))
    /\ pc' = IF ret'.outcome = "handle" THEN "returned" ELSE ret'.outcome
    /\ UNCHANGED <<heap, ppm, methods, map, apply, transform_type, magnitude,
                   dest_info, it, visited, prev, applied, shadow, writes, args, orig>>

\* A call of UArray2b_new(width, height, size, blocksize).
New ==
    /\ pc = "call"
    /\ args.fn = "UArray2b_new"
    /\ ret' = Constructed(args.width, args.height, args.size, args.blocksize)
    /\ pc' = IF ret'.outcome = "handle" THEN "returned" ELSE ret'.outcome
    /\ UNCHANGED <<heap, ppm, methods, map, apply, transform_type, magnitude,
                   dest_info, it, visited, prev, applied, shadow, writes, args, orig>>

NextNew == New64K \/ New

SpecNew == InitNew /\ [][NextNew]_vars


(* ------------------- the transform engine (ppmtrans.c) ------------------ *)
\* create_image swapping the grid's dimensions but not the record's fields.
create_image_stale(p, m, type, mag) ==
    LET width  == p.width
        height == p.height
        size   == PnmRgbSize
    IN  IF (type = ROTATE /\ (mag = 90 \/ mag = 270)) \/ type = TRANSPOSE
        THEN [ppm |-> p, image |-> Methods_new(m, height, width, size)]
        ELSE [ppm |-> p, image |-> Methods_new(m, width, height, size)]

\* create_image: the record after it and the grid it returns.
create_image(p, m, type, mag) ==
    LET width  == p.width
        height == p.height
        size   == PnmRgbSize
    IN  IF (type = ROTATE /\ (mag = 90 \/ mag = 270)) \/ type = TRANSPOSE
        THEN [ppm |-> [p EXCEPT !.width = height, !.height = width],
              image |-> Methods_new(m, height, width, size)]
        ELSE [ppm |-> p, image |-> Methods_new(m, width, height, size)]

result_init(m, mag, image) ==
    [methods |-> m, destination_map |-> image, magnitude |-> mag]

\* transform_init: the callback of a transform type.
transform_init(f, type) ==
    IF type = ROTATE THEN "rotate_map"
    ELSE IF type = FLIP THEN "flip_map"
    ELSE IF type = TRANSPOSE THEN "transpose_map"
    ELSE f

\* methods->free(&buff): the grid's storage is released.
Freed == [kind |-> "freed"]

\* reassign: the record and the heap after it.
reassign(h, p, destination_map, m) ==
    LET buff == p.pixels
    IN  [ppm |-> [p EXCEPT !.pixels = destination_map],
         heap |-> [h EXCEPT ![buff] = Freed]]

\* The (type, magnitude) pairs main can hand to transform: -transpose keeps
\* the magnitude of an earlier -rotate or -flip.
Operations ==
    ({ROTATE} \X {0, 90, 180, 270}) \cup ({FLIP} \X {HORIZ, VERT})
        \cup ({TRANSPOSE} \X {0, 90})

\* The (methods, map) pairs main can hand to transform.
Selections ==
    {<<uarray2_methods_plain, "map_row_major">>,
     <<uarray2_methods_plain, "map_col_major">>,
     <<uarray2_methods_blocked, "map_block_major">>}

\* The pixel the reader stores at (col, row) of a width-wide image: cells are
\* numbered from 1 in row-major order (0 is an untouched cell).
Pixel(width, col, row) == row * width + col + 1

\* The grid g of suite m with every cell from n on set to its pixel.
RECURSIVE ReadPixels(_, _, _)
ReadPixels(m, g, n) ==
    IF ~(n.row < g.height) THEN g
    ELSE ReadPixels(m,
                    Store(g, Methods_at(m, g, n.col, n.row), Pixel(g.width, n.col, n.row)),
                    RowLoop(g, n.row, n.col + 1))

\* transform as one call on a heap holding only the image's grid g: the
\* contents of the image afterwards (no image when the call aborts).
TransformWhole(m, mapfn, g, type, mag) ==
    LET c == create_image([width |-> g.width, height |-> g.height, pixels |-> 1],
                          m, type, mag)
    IN  IF c.image.kind = "abort" THEN NoPrev
        ELSE LET r == RunMap(<<g, c.image>>, mapfn, 1, transform_init("none", type),
                             result_init(m, mag, 2))
             IN  IF ~r.ok THEN NoPrev
                 ELSE LET q == reassign(r.heap, c.ppm, 2, m)
                      IN  View(m, q.heap[q.ppm.pixels])

\* A grid of suite m (of blocksize bs when blocked) holding the cells of view v.
RECURSIVE CopyView(_, _, _, _)
CopyView(m, g, v, n) ==
    IF ~(n.row < g.height) THEN g
    ELSE CopyView(m,
                  Store(g, Methods_at(m, g, n.col, n.row), v.cells[<<n.col, n.row>>]),
                  v, RowLoop(g, n.row, n.col + 1))
GridOf(m, v, bs) ==
    LET g == IF m.name = "plain" THEN plain_new(v.width, v.height, PnmRgbSize)
             ELSE UArray2b_new(v.width, v.height, PnmRgbSize, bs)
    IN  CopyView(m, g, v, RowLoop(g, 0, 0))

\* The image as read: a plain grid, or a blocked grid of some valid blocksize.
Init ==
    /\ \E w \in 1..MaxW, h \in 1..MaxH, sel \in Selections, op \in Operations :
          /\ methods = sel[1]
          /\ map = sel[2]
          /\ transform_type = op[1]
          /\ magnitude = op[2]
          /\ ppm = [width |-> w, height |-> h, pixels |-> 1]
          /\ \E g \in IF sel[1].name = "plain"
                      THEN {plain_new(w, h, PnmRgbSize)}
                      ELSE {UArray2b_new(w, h, PnmRgbSize, bs) :
                                bs \in {b \in 1..MaxW : b <= w /\ b <= h}} :
                /\ heap = <<ReadPixels(sel[1], g, RowLoop(g, 0, 0))>>
                /\ orig = [View(sel[1], heap[1]) EXCEPT !.pixels = 1]
    /\ apply = "none"
    /\ dest_info = NoInfo
    /\ pc = "idle"
    /\ it = NoIt
    /\ visited = <<>>
    /\ prev = NoPrev
    /\ applied = 0
    /\ ret = NoRet
    /\ shadow = <<>>
    /\ writes = 0
    /\ args = NoArgs

\* transform, lines 265-271: the destination is created and the closure and
\* the callback are set up.  Either allocation can fail: methods->new inside
\* create_image (after create_image has written the record's width and
\* height) ends the program at "nomem", malloc returning NULL makes
\* malloc_check exit at "exit".
transform ==
    /\ pc = "idle"
    /\ applied < MaxApply
    /\ LET c == create_image(ppm, methods, transform_type, magnitude)
       IN  /\ ppm' = c.ppm
           /\ \/ /\ pc' = "nomem"
                 /\ UNCHANGED <<heap, dest_info, apply>>
              \/ /\ c.image.kind # "abort"
                 /\ heap' = Append(heap, c.image)
                 /\ pc' = "exit"
                 /\ UNCHANGED <<dest_info, apply>>
              \/ IF c.image.kind = "abort"
                 THEN /\ pc' = "abort"
                      /\ UNCHANGED <<heap, dest_info, apply>>
                 ELSE /\ heap' = Append(heap, c.image)
                      /\ dest_info' = result_init(methods, magnitude, Len(heap) + 1)
                      /\ apply' = transform_init(apply, transform_type)
                      /\ pc' = "transform_image"
    /\ prev' = [View(methods, heap[ppm.pixels]) EXCEPT !.pixels = ppm.pixels]
    /\ UNCHANGED <<methods, map, transform_type, magnitude, it, visited, applied,
                   ret, shadow, writes, args, orig>>

\* transform_image: map(ppm->pixels, apply, dest_info) is entered.
transform_image ==
    /\ pc = "transform_image"
    /\ it' = MapEntry(ppm.pixels)
    /\ visited' = <<>>
    /\ pc' = "map"
    /\ UNCHANGED <<heap, ppm, methods, map, apply, transform_type, magnitude,
                   dest_info, prev, applied, ret, shadow, writes, args, orig>>

\* transform, lines 273-276, once the traversal has returned: reassign and
\* free(dest_info).
transform_return ==
    /\ pc = "map"
    /\ MapEnded
    /\ LET r == reassign(heap, ppm, dest_info.destination_map, methods)
       IN  /\ ppm' = r.ppm
           /\ heap' = r.heap
    /\ dest_info' = NoInfo
    /\ it' = NoIt
    /\ visited' = <<>>
    /\ applied' = applied + 1
    /\ pc' = "idle"
    /\ UNCHANGED <<methods, map, apply, transform_type, magnitude, prev,
                   ret, shadow, writes, args, orig>>

Next ==
    \/ transform
    \/ transform_image
    \/ UArray2b_map
    \/ map_row_major
    \/ map_col_major
    \/ transform_return

Spec == Init /\ [][Next]_vars

(* ---------------- driver: UArray2b_free --------------------------------- *)
\* The driver holds a handle variable (1: the grid heap[1], 0: NULL) and
\* calls UArray2b_free(&handle).  Every statement of UArray2b_free appends to
\* `visited` the objects it touches and the object it releases, if any.
HandleObj == [kind |-> "handle", col |-> 0, row |-> 0]
BlocksObj == [kind |-> "blocks", col |-> 0, row |-> 0]
BufferObj(col, row) == [kind |-> "buffer", col |-> col, row |-> row]

\* UArray2b_free releasing the handle before the block grid.
UArray2b_free_handle_first(stmt) ==
    IF stmt = "assert" THEN "UArray2_map_row_major"
    ELSE IF stmt = "UArray2_map_row_major" THEN "FREE"
    ELSE IF stmt = "FREE" THEN "UArray2_free"
    ELSE "return"

\* UArray2b_free, lines 155-160: the statement that follows stmt.
UArray2b_free(stmt) ==
    IF stmt = "assert" THEN "UArray2_map_row_major"
    ELSE IF stmt = "UArray2_map_row_major" THEN "UArray2_free"
    ELSE IF stmt = "UArray2_free" THEN "FREE"
    ELSE "return"

InitFree ==
    /\ \E s \in MapShapes :
          /\ heap = <<UArray2b_new(s[1], s[2], 1, s[3])>>
          /\ args = [fn |-> "UArray2b_free", width |-> s[1], height |-> s[2],
                     size |-> 1, blocksize |-> s[3]]
    /\ \E handle \in {0, 1} : ret = [called |-> FALSE, handle |-> handle]
    /\ ppm = NoPpm
    /\ methods = NoMethods
    /\ map = "map_row_major"
    /\ apply = "blocks_free"
    /\ transform_type = ROTATE
    /\ magnitude = 0
    /\ dest_info = NoInfo
    /\ pc = "call"
    /\ it = NoIt
    /\ visited = <<>>
    /\ prev = NoPrev
    /\ applied = 0
    /\ shadow = <<>>
    /\ writes = 0
    /\ orig = NoPrev

\* UArray2b_free, lines 155-157: the assertion, and UArray2_map_row_major is
\* entered on (*uarray2b)->blocks.
free_assert ==
    /\ pc = "call"
    /\ IF ret.handle = 0
       THEN /\ pc' = "abort"
            /\ UNCHANGED <<it, visited>>
       ELSE LET n == RowLoop(heap[1].blocks, 0, 0)
            IN  /\ it' = [NoIt EXCEPT !.a = 1, !.row = n.row, !.col = n.col]
                /\ visited' = Append(visited,
                      [op |-> "assert", frees |-> FALSE, obj |-> HandleObj,
                       touched |-> {HandleObj}])
                /\ pc' = UArray2b_free("assert")
    /\ ret' = [ret EXCEPT !.called = TRUE]
    /\ UNCHANGED <<heap, ppm, methods, map, apply, transform_type, magnitude,
                   dest_info, prev, applied, shadow, writes, args, orig>>

\* blocks_free: UArray2_map_row_major hands it the slot (col, row) of the
\* block grid and it releases the buffer held there.
blocks_free ==
    /\ pc = "UArray2_map_row_major"
    /\ LET blocks == heap[1].blocks
           n      == RowLoop(blocks, it.row, it.col + 1)
       IN  /\ it.row < blocks.height
           /\ visited' = Append(visited,
                 [op |-> "UArray_free", frees |-> TRUE, obj |-> BufferObj(it.col, it.row),
                  touched |-> {BlocksObj, BufferObj(it.col, it.row)}])
           /\ it' = [it EXCEPT !.row = n.row, !.col = n.col]
           /\ pc' = IF n.row < blocks.height THEN pc ELSE UArray2b_free(pc)
    /\ UNCHANGED <<heap, ppm, methods, map, apply, transform_type, magnitude,
                   dest_info, prev, applied, ret, shadow, writes, args, orig>>

\* UArray2_free(&((*uarray2b)->blocks)): the block grid is released and the
\* handle's blocks field cleared.
free_blocks ==
    /\ pc = "UArray2_free"
    /\ visited' = Append(visited,
          [op |-> "UArray2_free", frees |-> TRUE, obj |-> BlocksObj,
           touched |-> {HandleObj, BlocksObj}])
    /\ pc' = UArray2b_free(pc)
    /\ UNCHANGED <<heap, ppm, methods, map, apply, transform_type, magnitude,
                   dest_info, it, prev, applied, ret, shadow, writes, args, orig>>

\* FREE(*uarray2b): the handle is released and the caller's variable cleared.
free_handle ==
    /\ pc = "FREE"
    /\ visited' = Append(visited,
          [op |-> "FREE", frees |-> TRUE, obj |-> HandleObj, touched |-> {HandleObj}])
    /\ heap' = [heap EXCEPT ![1] = Freed]
    /\ ret' = [ret EXCEPT !.handle = 0]
    /\ pc' = UArray2b_free(pc)
    /\ UNCHANGED <<ppm, methods, map, apply, transform_type, magnitude,
                   dest_info, it, prev, applied, shadow, writes, args, orig>>

NextFree == free_assert \/ blocks_free \/ free_blocks \/ free_handle

SpecFree == InitFree /\ [][NextFree]_vars

(* ------------------- main: the command line (ppmtrans.c) ---------------- *)
\* SET_METHODS changing the table but keeping the traversal selected before.
SET_METHODS_keepmap(METHODS, MAP) ==
    [methods |-> METHODS, map |-> map, exit |-> FALSE]

\* The SET_METHODS macro: methods and map after it, and whether it ended the
\* program with exit(1) because the slot is NULL.
SET_METHODS(METHODS, MAP) ==
    [methods |-> METHODS, map |-> METHODS[MAP], exit |-> (METHODS[MAP] = "NULL")]

\* Words of the command line.
Tokens == {"-row-major", "-col-major", "-block-major", "-rotate", "90",
           "-flip", "vertical", "-transpose"}

\* strtol(word, &endptr, 10): the value, and whether *endptr == '\0'.
Strtol(word) ==
    IF word = "90" THEN [value |-> 90, all |-> TRUE] ELSE [value |-> 0, all |-> FALSE]

\* main, lines 93-104: the locals before the loop over the arguments.
InitMain ==
    /\ \E n \in 0..MaxArgs : \E argv \in [1..n -> Tokens] :
          args = [fn |-> "main", argv |-> argv]
    /\ heap = <<>>
    /\ ppm = NoPpm
    /\ methods = uarray2_methods_plain
    /\ map = uarray2_methods_plain.map_default
    /\ apply = "none"
    /\ transform_type = ROTATE
    /\ magnitude = 0
    /\ dest_info = NoInfo
    /\ pc = "options"
    /\ it = [i |-> 1]
    /\ visited = <<>>
    /\ prev = NoPrev
    /\ applied = 0
    /\ ret = NoRet
    /\ shadow = <<>>
    /\ writes = 0
    /\ orig = NoPrev

\* main, lines 106-165: one iteration of the loop over the arguments.
\* argv[1..argc-1] of the program is args.argv[1..Len]; "usage" is the exit
\* of usage(), "exit1" the exit(1) of SET_METHODS.
main_option ==
    /\ pc = "options"
    /\ it.i <= Len(args.argv)
    /\ LET i    == it.i
           argc == Len(args.argv) + 1
           a    == args.argv[i]
       IN  IF a \in {"-row-major", "-col-major", "-block-major"}
           THEN LET r == IF a = "-row-major"
                         THEN SET_METHODS(uarray2_methods_plain, "map_row_major")
                         ELSE IF a = "-col-major"
                         THEN SET_METHODS(uarray2_methods_plain, "map_col_major")
                         ELSE SET_METHODS(uarray2_methods_blocked, "map_block_major")
                IN  /\ methods' = r.methods
                    /\ map' = r.map
                    /\ pc' = IF r.exit THEN "exit1" ELSE "options"
                    /\ it' = [i |-> i + 1]
                    /\ UNCHANGED <<transform_type, magnitude>>
           ELSE IF a = "-rotate"
           THEN IF ~(i + 1 < argc)
                THEN /\ pc' = "usage"
                     /\ UNCHANGED <<methods, map, transform_type, magnitude, it>>
                ELSE LET n == Strtol(args.argv[i + 1])
                     IN  /\ magnitude' = n.value
                         /\ it' = [i |-> i + 2]
                         /\ IF ~(n.value \in {0, 90, 180, 270}) \/ ~n.all
                            THEN pc' = "usage" /\ UNCHANGED transform_type
                            ELSE pc' = "options" /\ transform_type' = ROTATE
                         /\ UNCHANGED <<methods, map>>
           ELSE IF a = "-flip"
           THEN IF ~(i + 1 < argc)
                THEN /\ pc' = "usage"
                     /\ UNCHANGED <<methods, map, transform_type, magnitude, it>>
                ELSE /\ it' = [i |-> i + 2]
                     /\ IF args.argv[i + 1] = "vertical"
                        THEN /\ magnitude' = VERT
                             /\ transform_type' = FLIP
                             /\ pc' = "options"
                        ELSE /\ pc' = "usage"
                             /\ UNCHANGED <<transform_type, magnitude>>
                     /\ UNCHANGED <<methods, map>>
           ELSE IF a = "-transpose"
           THEN /\ transform_type' = TRANSPOSE
                /\ it' = [i |-> i + 1]
                /\ UNCHANGED <<methods, map, magnitude, pc>>
           ELSE IF argc - i > 1
           THEN /\ pc' = "usage"
                /\ UNCHANGED <<methods, map, transform_type, magnitude, it>>
           ELSE /\ it' = [i |-> i + 1]
                /\ UNCHANGED <<methods, map, transform_type, magnitude, pc>>
    /\ UNCHANGED <<heap, ppm, apply, dest_info, visited, prev, applied, ret,
                   shadow, writes, args, orig>>

\* main, lines 173-174: the loop has ended; methods goes to process_file and
\* (methods, map, transform_type, magnitude) to transform.
main_transform ==
    /\ pc = "options"
    /\ ~(it.i <= Len(args.argv))
    /\ pc' = "handed"
    /\ UNCHANGED <<heap, ppm, methods, map, apply, transform_type, magnitude,
                   dest_info, it, visited, prev, applied, ret, shadow, writes,
                   args, orig>>

NextMain == main_option \/ main_transform

SpecMain == InitMain /\ [][NextMain]_vars

(* ======================================================================= *)
(*                               Claims                                    *)
(* ======================================================================= *)

\* The coordinates a row-major traversal of a width x height grid visits,
\* from its two loops.
RECURSIVE RowMajorFrom(_, _)
RowMajorFrom(a, n) ==
    IF ~(n.row < a.height) THEN {}
    ELSE {<<n.col, n.row>>} \cup RowMajorFrom(a, RowLoop(a, n.row, n.col + 1))
RowMajorSet(a) == RowMajorFrom(a, RowLoop(a, 0, 0))

\* Number of invocations recorded for coordinate p.
Visits(p) == Cardinality({i \in 1..Len(visited) : <<visited[i].col, visited[i].row>> = p})

\* The grid the traversal driver walks.
MapGrid == heap[1]

\* C1: one call of UArray2b_map on a grid with 1 <= blocksize <= min(width,
\* height) ends normally, having invoked the callback exactly once for every
\* (col, row) of [0,width) x [0,height) and for no other coordinate: the
\* visited set is the set a row-major traversal visits.  While it runs no
\* coordinate has been visited twice.
C1_BlockMajorVisitsEachOnce ==
    /\ pc # "abort"
    /\ \A i \in 1..Len(visited) : Visits(<<visited[i].col, visited[i].row>>) = 1
    /\ pc = "returned" =>
         /\ \A c \in 0..(MapGrid.width - 1), r \in 0..(MapGrid.height - 1) :
                Visits(<<c, r>>) = 1
         /\ \A i \in 1..Len(visited) :
                /\ visited[i].col \in 0..(MapGrid.width - 1)
                /\ visited[i].row \in 0..(MapGrid.height - 1)
         /\ {<<visited[i].col, visited[i].row>> : i \in 1..Len(visited)}
                = RowMajorSet(MapGrid)

\* A traversal of a grid whose width is not a multiple of the blocksize returned.
C1_Witness ==
    /\ pc = "returned"
    /\ MapGrid.width = 3 /\ MapGrid.height = 2 /\ MapGrid.blocksize = 2
    /\ Len(visited) = 6

\* Valid extent of a block along one dimension of length n: the last block
\* holds n mod blocksize cells when that is nonzero, every other one blocksize.
Extent(n, bs, b, nblocks) ==
    IF b = nblocks - 1 /\ n % bs # 0 THEN n % bs ELSE bs

\* C10: a blocked grid has ceil(width/blocksize) x ceil(height/blocksize)
\* blocks of capacity blocksize^2 each; block-major traversal never aborts and
\* every slot it hands to the callback lies inside the valid extent of its
\* block (width mod blocksize columns in the last block column when nonzero,
\* height mod blocksize rows in the last block row when nonzero).  For the
\* 10 x 10 grid of blocksize 4 the block grid is 3 x 3, the last block row and
\* column are 2 cells, and a finished traversal made exactly 100 visits.
C10_EdgeBlocksClipped ==
    LET g  == MapGrid
        bs == g.blocksize
        bw == g.blocks.width
        bh == g.blocks.height
    IN  /\ pc # "abort"
        /\ (bw - 1) * bs < g.width /\ g.width <= bw * bs
        /\ (bh - 1) * bs < g.height /\ g.height <= bh * bs
        /\ DOMAIN g.blocks.elems = (0..(bw - 1)) \X (0..(bh - 1))
        /\ \A b \in DOMAIN g.blocks.elems : DOMAIN g.blocks.elems[b] = 0..(bs * bs - 1)
        /\ \A i \in 1..Len(visited) :
              LET e == visited[i].elem
              IN  /\ e.block \in DOMAIN g.blocks.elems
                  /\ e.off \in 0..(bs * bs - 1)
                  /\ e.off % bs < Extent(g.width, bs, e.block[1], bw)
                  /\ e.off \div bs < Extent(g.height, bs, e.block[2], bh)
        /\ (g.width = 10 /\ g.height = 10 /\ bs = 4) =>
              /\ bw = 3 /\ bh = 3
              /\ Extent(10, 4, 2, 3) = 2
              /\ BlkW(g, 2) = 2 /\ BlkH(g, 2) = 2
              /\ pc = "returned" => Len(visited) = 100

\* The traversal of the 10 x 10 grid of blocksize 4 returned after visiting a
\* cell of the clipped corner block.
C10_Witness ==
    /\ pc = "returned"
    /\ MapGrid.width = 10 /\ MapGrid.height = 10 /\ MapGrid.blocksize = 4
    /\ Len(visited) = 100
    /\ \E i \in 1..Len(visited) : visited[i].elem.block = <<2, 2>>

\* The grid of the access driver.
AtGrid == heap[1]

\* C8: a call of UArray2b_at with col outside [0,width) or row outside
\* [0,height), negative values included, fails an assertion and returns no
\* reference to an element.
C8_OutOfRangeAtFails ==
    (ret.called /\ ~(ret.col \in 0..(AtGrid.width - 1) /\ ret.row \in 0..(AtGrid.height - 1)))
        => (~ret.ref.ok /\ pc = "abort")

\* C9: at every in-range coordinate UArray2b_at returns a reference, and the
\* value read through it is the value last stored through UArray2b_at at that
\* coordinate (stores at other coordinates leave it alone); the element
\* UArray2b_map hands to the callback for (col, row) is that element.
C9_AtWriteReadBack ==
    /\ \A p \in Coords(AtGrid.width, AtGrid.height) :
          LET r == UArray2b_at(AtGrid, p[1], p[2])
          IN  r.ok /\ Load2b(AtGrid, r) = shadow[p]
    /\ \A i \in 1..Len(visited) :
          /\ visited[i].val = shadow[<<visited[i].col, visited[i].row>>]
          /\ visited[i].elem = UArray2b_at(AtGrid, visited[i].col, visited[i].row)

\* Two different values were stored at two cells of the same block of a
\* 3 x 2 grid of blocksize 2, and a traversal of the grid returned.
C9_Witness ==
    /\ pc = "returned"
    /\ AtGrid.width = 3 /\ AtGrid.height = 2 /\ AtGrid.blocksize = 2
    /\ shadow[<<1, 0>>] = 1 /\ shadow[<<0, 1>>] = 2
    /\ Len(visited) = 6

\* Smaller of two integers.
Min(a, b) == IF a < b THEN a ELSE b

\* C7: with cells = 64000 / elementSize, UArray2b_new_64K_block hands
\* UArray2b_init the blocksize 1 when cells < 1, min(width, height) when
\* sqrt(cells) exceeds width or height (cells > width^2 or cells > height^2),
\* and floor(sqrt(cells)) otherwise; elementSize 1 with width = height = 1000
\* gives 252, and width 5, height 1000, elementSize 1 gives 5.
C7_BlocksizeHeuristic ==
    (ret.called /\ args.fn = "UArray2b_new_64K_block" /\ args.size > 0) =>
        LET cells == CacheBytes \div args.size
            w     == args.width
            h     == args.height
            root  == CHOOSE r \in 0..CacheBytes : r * r <= cells /\ cells < (r + 1) * (r + 1)
        IN  /\ ret.outcome # "trap"
            /\ cells < 1 => ret.blocksize = 1
            /\ (cells >= 1 /\ (w < 0 \/ h < 0 \/ w * w < cells \/ h * h < cells))
                  => ret.blocksize = Min(w, h)
            /\ (cells >= 1 /\ w >= 0 /\ h >= 0 /\ w * w >= cells /\ h * h >= cells)
                  => ret.blocksize = root
            /\ (w = 1000 /\ h = 1000 /\ args.size = 1) => ret.blocksize = 252
            /\ (w = 5 /\ h = 1000 /\ args.size = 1) => ret.blocksize = 5

\* The constructor returned a 1000 x 1000 grid of 1-byte elements.
C7_Witness ==
    /\ pc = "returned"
    /\ args.fn = "UArray2b_new_64K_block"
    /\ args.width = 1000 /\ args.height = 1000 /\ args.size = 1
    /\ ret.blocksize = 252

\* The image the record holds now, read cell by cell.
Image == View(methods, heap[ppm.pixels])

\* Same dimensions and the same element at every coordinate.
SameImage(u, v) == u.width = v.width /\ u.height = v.height /\ u.cells = v.cells

\* The destination coordinate of source cell (col, row) of a W x H grid.
Mapped(type, mag, W, H, col, row) ==
    IF type = ROTATE /\ mag = 0 THEN <<col, row>>
    ELSE IF type = ROTATE /\ mag = 90 THEN <<H - row - 1, col>>
    ELSE IF type = ROTATE /\ mag = 180 THEN <<W - col - 1, H - row - 1>>
    ELSE IF type = ROTATE /\ mag = 270 THEN <<row, W - col - 1>>
    ELSE IF type = FLIP /\ mag = HORIZ THEN <<W - col - 1, row>>
    ELSE IF type = FLIP /\ mag = VERT THEN <<col, H - row - 1>>
    ELSE <<row, col>>

\* A transform has completed and no other is under way.
Completed == pc = "idle" /\ applied >= 1

\* C2: a transform never aborts, and after a completed transform of a W x H
\* grid, for every source cell (col, row) the destination cell at the mapped
\* coordinate - (col,row), (H-row-1,col), (W-col-1,H-row-1), (row,W-col-1) for
\* rotate 0, 90, 180, 270, (W-col-1,row) and (col,H-row-1) for flip horizontal
\* and vertical, (row,col) for transpose - holds the source cell's value.
C2_DestinationHoldsSource ==
    /\ pc # "abort"
    /\ Completed =>
          \A p \in Coords(prev.width, prev.height) :
             LET d == Mapped(transform_type, magnitude, prev.width, prev.height, p[1], p[2])
             IN  /\ d \in DOMAIN Image.cells
                 /\ Image.cells[d] = prev.cells[p]

\* A blocked 3 x 2 image was rotated by 90 degrees.
C2_Witness ==
    /\ Completed /\ applied = 1
    /\ methods.name = "blocked"
    /\ transform_type = ROTATE /\ magnitude = 90
    /\ prev.width = 3 /\ prev.height = 2
    /\ Image.cells[<<1, 0>>] = prev.cells[<<0, 0>>]

\* The transform swaps width and height.
Swaps == (transform_type = ROTATE /\ magnitude \in {90, 270}) \/ transform_type = TRANSPOSE

\* C3: after a completed transform the record holds the grid allocated for
\* this transform (the newest one, live), the record's width and height and
\* the grid's own are (H, W) for rotate 90, rotate 270 and transpose and
\* (W, H) for rotate 0, rotate 180 and the flips, and the old grid has been
\* released.
C3_RecordHoldsNewGrid ==
    Completed =>
        LET g == heap[ppm.pixels]
            W == prev.width
            H == prev.height
        IN  /\ ppm.pixels = Len(heap)
            /\ ppm.pixels # prev.pixels
            /\ g.kind # "freed"
            /\ heap[prev.pixels].kind = "freed"
            /\ Methods_width(methods, g) = ppm.width
            /\ Methods_height(methods, g) = ppm.height
            /\ Swaps => (ppm.width = H /\ ppm.height = W)
            /\ ~Swaps => (ppm.width = W /\ ppm.height = H)

\* A 3 x 1 image was rotated by 270 degrees into a 1 x 3 image.
C3_Witness ==
    /\ Completed
    /\ transform_type = ROTATE /\ magnitude = 270
    /\ prev.width = 3 /\ prev.height = 1
    /\ ppm.width = 1 /\ ppm.height = 3

\* C4: four rotations by 90 degrees in succession give back the original
\* width and height and the original element at every coordinate.
C4_FourRotationsIdentity ==
    /\ pc # "abort"
    /\ (pc = "idle" /\ applied = 4 /\ transform_type = ROTATE /\ magnitude = 90)
          => SameImage(Image, orig)

\* A blocked 2 x 3 image was rotated four times by 90 degrees.
C4_Witness ==
    /\ pc = "idle" /\ applied = 4
    /\ transform_type = ROTATE /\ magnitude = 90
    /\ methods.name = "blocked"
    /\ orig.width = 2 /\ orig.height = 3
    /\ Image.cells[<<1, 2>>] = 6

\* C5: flip horizontal, flip vertical and transpose are involutions: two
\* applications in succession give back the original dimensions and the
\* original element at every coordinate, for every width and height.
C5_FlipTransposeInvolution ==
    (pc = "idle" /\ applied = 2 /\ transform_type \in {FLIP, TRANSPOSE})
        => SameImage(Image, orig)

\* A 3 x 2 image (odd width) was flipped horizontally twice.
C5_Witness ==
    /\ pc = "idle" /\ applied = 2
    /\ transform_type = FLIP /\ magnitude = HORIZ
    /\ orig.width = 3 /\ orig.height = 2
    /\ prev.cells[<<0, 0>>] = 3
    /\ Image.cells[<<0, 0>>] = 1

\* C6: the image a transform produces is the one the whole transform gives
\* when the source is traversed in row-major, in column-major or in
\* block-major order (on a plain grid, or a blocked grid of any valid
\* blocksize): same dimensions and the same element at every coordinate.
C6_OrderIndependent ==
    Completed =>
        \A sel \in Selections :
           \A bs \in {b \in 1..MaxW : b <= prev.width /\ b <= prev.height} :
              SameImage(Image,
                        TransformWhole(sel[1], sel[2], GridOf(sel[1], prev, bs),
                                       transform_type, magnitude))

\* A 3 x 3 image was transposed with the row-major traversal.
C6_Witness ==
    /\ Completed /\ applied = 1
    /\ map = "map_row_major"
    /\ transform_type = TRANSPOSE
    /\ prev.width = 3 /\ prev.height = 3
    /\ Image.cells[<<2, 0>>] = prev.cells[<<0, 2>>]

\* The arguments of the constructor call break a precondition the caller
\* controls: a non-positive width, height or element size, or for UArray2b_new
\* a blocksize that is non-positive or exceeds width or height.
InvalidArgs ==
    \/ args.width <= 0 \/ args.height <= 0 \/ args.size <= 0
    \/ /\ args.fn = "UArray2b_new"
       /\ (args.blocksize <= 0 \/ args.blocksize > args.width
              \/ args.blocksize > args.height)

\* C11: a call of UArray2b_new or UArray2b_new_64K_block with a non-positive
\* width, height or element size (zero included), or a blocksize that is
\* non-positive or exceeds width or height, ends in an assertion failure,
\* with no block buffer allocated and no handle returned.
C11_InvalidArgsAssert ==
    (ret.called /\ InvalidArgs) =>
        /\ ret.outcome = "abort"
        /\ pc = "abort"
        /\ ret.buffers = 0

\* C17: for width > 0, height > 0 and element size > 0 the blocksize chosen
\* by UArray2b_new_64K_block satisfies 1 <= blocksize <= min(width, height):
\* no assertion of UArray2b_init fails, a handle is returned, and its block
\* grid covers the whole width and height.
C17_HeuristicBlocksizeValid ==
    (ret.called /\ args.fn = "UArray2b_new_64K_block"
        /\ args.width > 0 /\ args.height > 0 /\ args.size > 0) =>
        /\ ret.outcome = "handle"
        /\ pc = "returned"
        /\ 1 <= ret.blocksize
        /\ ret.blocksize <= Min(args.width, args.height)
        /\ UArray2b_init_ok(args.width, args.height, args.size, ret.blocksize)
        /\ (ret.blocks_w - 1) * ret.blocksize < args.width
        /\ args.width <= ret.blocks_w * ret.blocksize
        /\ (ret.blocks_h - 1) * ret.blocksize < args.height
        /\ args.height <= ret.blocks_h * ret.blocksize

\* The constructor returned a 1000 x 5 grid of 12-byte elements: 5333 cells
\* fit the cache, more than the height squared.
C17_Witness ==
    /\ pc = "returned"
    /\ args.fn = "UArray2b_new_64K_block"
    /\ args.width = 1000 /\ args.height = 5 /\ args.size = 12
    /\ ret.outcome = "handle" /\ ret.blocksize = 5

\* The position of a visited cell in block-major order: block row, block
\* column, row inside the block, column inside the block.
BlockKey(v) ==
    LET bs == MapGrid.blocksize
    IN  <<v.row \div bs, v.col \div bs, v.row % bs, v.col % bs>>

\* Lexicographic order on such positions.
KeyLess(a, b) ==
    \/ a[1] < b[1]
    \/ a[1] = b[1] /\ a[2] < b[2]
    \/ a[1] = b[1] /\ a[2] = b[2] /\ a[3] < b[3]
    \/ a[1] = b[1] /\ a[2] = b[2] /\ a[3] = b[3] /\ a[4] < b[4]

\* C14: UArray2b_map invokes the callback in block-major order: of two
\* invocations the earlier one is for the cell in the earlier block (blocks
\* ordered by block row, then block column) or, in the same block, for the
\* cell with the smaller row inside the block, then the smaller column; so
\* all cells of a block are visited before any cell of the next block.
C14_BlockMajorOrder ==
    \A i, j \in 1..Len(visited) :
        i < j => KeyLess(BlockKey(visited[i]), BlockKey(visited[j]))

\* The traversal of a 3 x 3 grid of blocksize 2 returned: the four cells of
\* block (0,0), then the two of block (1,0), then block (0,1), then (1,1).
C14_Witness ==
    /\ pc = "returned"
    /\ MapGrid.width = 3 /\ MapGrid.height = 3 /\ MapGrid.blocksize = 2
    /\ Len(visited) = 9
    /\ <<visited[3].col, visited[3].row>> = <<0, 1>>
    /\ <<visited[4].col, visited[4].row>> = <<1, 1>>
    /\ <<visited[5].col, visited[5].row>> = <<2, 0>>
    /\ <<visited[7].col, visited[7].row>> = <<0, 2>>
    /\ <<visited[9].col, visited[9].row>> = <<2, 2>>

\* The slot the layout assigns to (col, row) in a grid of blocksize bs.
SlotOf(bs, col, row) ==
    [ok |-> TRUE, block |-> <<col \div bs, row \div bs>>,
     off |-> bs * (row % bs) + (col % bs)]

\* C16: in a valid blocked grid UArray2b_at maps every in-bounds (col, row)
\* to block (col div blocksize, row div blocksize), a block of the
\* ceil(width/blocksize) x ceil(height/blocksize) block grid, and to offset
\* blocksize * (row mod blocksize) + (col mod blocksize), which lies in
\* [0, blocksize^2); two distinct in-bounds coordinates never get the same
\* (block, offset) slot; the traversal's calls of UArray2b_at return these slots.
C16_AtSlotInjective ==
    LET g  == MapGrid
        bs == g.blocksize
        bw == (g.width + bs - 1) \div bs
        bh == (g.height + bs - 1) \div bs
    IN  /\ g.blocks.width = bw /\ g.blocks.height = bh
        /\ \A p \in Coords(g.width, g.height) :
              LET r == UArray2b_at(g, p[1], p[2])
              IN  /\ r = SlotOf(bs, p[1], p[2])
                  /\ r.block[1] \in 0..(bw - 1)
                  /\ r.block[2] \in 0..(bh - 1)
                  /\ r.off \in 0..(bs * bs - 1)
        /\ \A p, q \in Coords(g.width, g.height) :
              p # q => UArray2b_at(g, p[1], p[2]) # UArray2b_at(g, q[1], q[2])
        /\ \A i \in 1..Len(visited) :
              visited[i].elem = SlotOf(bs, visited[i].col, visited[i].row)

\* The traversal of the 10 x 10 grid of blocksize 4 got offset 5 of block
\* (2,2) for the cell (9,9), and offset 5 of block (0,0) for the cell (1,1).
C16_Witness ==
    /\ MapGrid.width = 10 /\ MapGrid.height = 10 /\ MapGrid.blocksize = 4
    /\ \E i, j \in 1..Len(visited) :
          /\ visited[i].col = 9 /\ visited[i].row = 9
          /\ visited[i].elem.block = <<2, 2>> /\ visited[i].elem.off = 5
          /\ visited[j].col = 1 /\ visited[j].row = 1
          /\ visited[j].elem.block = <<0, 0>> /\ visited[j].elem.off = 5

\* The destination grid of the running transform and the source it reads.
Destination == heap[dest_info.destination_map]
Source == heap[it.a]

\* C18: during the traversal of a transform every destination coordinate
\* computed for a source cell lies inside the destination grid create_image
\* allocated for the operation (whose dimensions are the record's), no
\* destination cell is written twice, no source cell is visited twice, and
\* when the traversal ends every destination cell has been written: the map
\* from source cells to destination cells is a bijection.
C18_DestinationBijection ==
    /\ pc # "abort"
    /\ pc = "map" =>
          LET dw == Methods_width(methods, Destination)
              dh == Methods_height(methods, Destination)
              n  == Len(visited)
          IN  /\ dw = ppm.width /\ dh = ppm.height
              /\ dest_info.destination_map # it.a
              /\ \A i \in 1..n :
                    /\ visited[i].dest \in Coords(dw, dh)
                    /\ <<visited[i].col, visited[i].row>>
                          \in Coords(Source.width, Source.height)
              /\ \A i, j \in 1..n :
                    i # j => /\ visited[i].dest # visited[j].dest
                             /\ <<visited[i].col, visited[i].row>>
                                   # <<visited[j].col, visited[j].row>>
              /\ MapEnded =>
                    /\ {visited[i].dest : i \in 1..n} = Coords(dw, dh)
                    /\ {<<visited[i].col, visited[i].row>> : i \in 1..n}
                          = Coords(Source.width, Source.height)
                    /\ \A d \in Coords(dw, dh) : View(methods, Destination).cells[d] # 0

\* The traversal of a vertical flip of a blocked 2 x 3 image has ended; its
\* first callback stored to the bottom-left cell of the destination.
C18_Witness ==
    /\ pc = "map" /\ MapEnded
    /\ methods.name = "blocked"
    /\ transform_type = FLIP /\ magnitude = VERT
    /\ Source.width = 2 /\ Source.height = 3
    /\ Len(visited) = 6
    /\ visited[1].dest = <<0, 2>>

\* The program ended inside transform because an allocation failed.
AllocationFailed == pc \in {"nomem", "exit"}

\* C12: when the allocation of the destination grid or of the closure fails
\* inside transform, the program ends with the caller's record as it was
\* before the request: same width, same height, same pixels grid, and that
\* grid live with its contents untouched.
C12_FailedTransformLeavesRecord ==
    AllocationFailed =>
        /\ ppm.width = prev.width
        /\ ppm.height = prev.height
        /\ ppm.pixels = prev.pixels
        /\ heap[ppm.pixels].kind # "freed"
        /\ View(methods, heap[ppm.pixels]).cells = prev.cells

\* The traversal slots of a method table that are present.
PresentSlots(m) ==
    {m.map_row_major, m.map_col_major, m.map_block_major, m.map_default} \ {"NULL"}

\* The traversal options among the first n command-line words.
TraversalOptions(n) ==
    {k \in 1..n : args.argv[k] \in {"-row-major", "-col-major", "-block-major"}}

\* The (methods, map) pair the traversal option `a` selects.
SelectedBy(a) ==
    IF a = "-row-major" THEN <<uarray2_methods_plain, uarray2_methods_plain.map_row_major>>
    ELSE IF a = "-col-major"
    THEN <<uarray2_methods_plain, uarray2_methods_plain.map_col_major>>
    ELSE <<uarray2_methods_blocked, uarray2_methods_blocked.map_block_major>>

\* C13: the plain table has no block-major and no small block-major slot and
\* reports blocksize 1; main never goes on with an absent slot: after every
\* command-line word either the program has exited with status 1 on an absent
\* slot, or map is a present slot of the table in methods; the pair handed to
\* transform is the one the last -row-major / -col-major / -block-major word
\* selects, and the plain table with its default, row-major, when there is none.
C13_SelectedSlotPresent ==
    /\ uarray2_methods_plain.map_block_major = "NULL"
    /\ uarray2_methods_plain.small_map_block_major = "NULL"
    /\ plain_blocksize(plain_new(2, 3, PnmRgbSize)) = 1
    /\ pc = "exit1" => map = "NULL"
    /\ pc # "exit1" => (map # "NULL" /\ map \in PresentSlots(methods))
    /\ pc = "handed" =>
          LET opts == TraversalOptions(Len(args.argv))
          IN  IF opts = {}
              THEN /\ methods = uarray2_methods_plain
                   /\ map = uarray2_methods_plain.map_default
                   /\ map = uarray2_methods_plain.map_row_major
              ELSE LET last == CHOOSE k \in opts : \A j \in opts : j <= k
                   IN  <<methods, map>> = SelectedBy(args.argv[last])

\* -block-major -col-major -transpose: the plain table and its column-major
\* slot were handed to transform.
C13_Witness ==
    /\ pc = "handed"
    /\ args.argv = <<"-block-major", "-col-major", "-transpose">>
    /\ methods = uarray2_methods_plain
    /\ map = "map_col_major"

\* The objects released by the first n statements of UArray2b_free.
Released(n) == {visited[k].obj : k \in {j \in 1..n : visited[j].frees}}

\* The block buffers of the grid handed to UArray2b_free.
AllBuffers ==
    {BufferObj(c, r) : c \in 0..(CeilDiv(args.width, args.blocksize) - 1),
                       r \in 0..(CeilDiv(args.height, args.blocksize) - 1)}

\* C15: UArray2b_free releases every block buffer, then the block grid, then
\* the handle: when the block grid is released every block buffer has been,
\* when the handle is released the block grid has been, no object is released
\* twice, no statement touches an object released before it, and when
\* UArray2b_free returns everything is released and the caller's handle
\* variable is NULL (and not before).
C15_FreeOrder ==
    LET n == Len(visited)
    IN  /\ \A i \in 1..n :
              /\ visited[i].touched \cap Released(i - 1) = {}
              /\ (visited[i].frees /\ visited[i].obj = BlocksObj)
                    => Released(i - 1) = AllBuffers
              /\ (visited[i].frees /\ visited[i].obj = HandleObj)
                    => Released(i - 1) = AllBuffers \cup {BlocksObj}
        /\ \A i, j \in 1..n :
              (i < j /\ visited[i].frees /\ visited[j].frees)
                  => visited[i].obj # visited[j].obj
        /\ pc = "return" =>
              /\ Released(n) = AllBuffers \cup {BlocksObj, HandleObj}
              /\ ret.handle = 0
              /\ heap[1] = Freed
        /\ pc \in {"UArray2_map_row_major", "UArray2_free", "FREE"} =>
              /\ ret.handle = 1
              /\ HandleObj \notin Released(n)
        /\ pc = "abort" => Released(n) = {}

\* UArray2b_free returned after releasing the four block buffers of a 3 x 3
\* grid of blocksize 2, the block grid and the handle, in this order.
C15_Witness ==
    /\ pc = "return"
    /\ args.width = 3 /\ args.height = 3 /\ args.blocksize = 2
    /\ Len(visited) = 7
    /\ visited[2].obj = BufferObj(0, 0) /\ visited[5].obj = BufferObj(1, 1)
    /\ visited[6].obj = BlocksObj /\ visited[7].obj = HandleObj
    /\ ret.handle = 0

====
